---- MODULE Spec2Model ----
(***************************************************************************)
(* Model of src/scripts/datasetViewer.js (class DatasetViewer): the        *)
(* hierarchical filter / navigation state machine and the answer verifier. *)
(*                                                                         *)
(* Modelling conventions                                                   *)
(*  - a JavaScript string is a sequence of one-character strings, so ''    *)
(*    is << >> and String(12) is <<"1","2">>; task names and settings,     *)
(*    which the code only compares and sorts, are TLA+ strings;            *)
(*  - a sample is a record that has a field only when the JSON object has  *)
(*    it; item.type is the sequence of words the type string is made of,   *)
(*    so type.includes(w) is "w occurs in the sequence";                   *)
(*  - filteredData holds references into allData: it is modelled as the    *)
(*    sequence of the positions (1-based) of the kept samples in allData;  *)
(*  - the page's select elements (setting-select, task-select,             *)
(*    step-select) and buttons exist; stepOptions is the option list of    *)
(*    step-select, displayed the sample the data display shows (its        *)
(*    position in allData, 0 for the no-data notice or nothing yet), and   *)
(*    verificationResult the content of the result div;                    *)
(*  - loadError is the error init() caught and logged, "none" before.      *)
(***************************************************************************)
EXTENDS Integers, Sequences, FiniteSets, TLC

VARIABLES phase, allData, filteredData, currentIndex, currentSetting,
          currentTaskName, currentStepLength, availableTaskNames,
          availableStepLengths, showAnswer, stepOptions, displayed,
          verificationResult, userInput, loadError

vars == <<phase, allData, filteredData, currentIndex, currentSetting,
          currentTaskName, currentStepLength, availableTaskNames,
          availableStepLengths, showAnswer, stepOptions, displayed,
          verificationResult, userInput, loadError>>

(***************************************************************************)
(* Bounds and input domains                                                *)
(***************************************************************************)
MaxSamples == 3

MaxInputLen == 5

\* Task names in ascending order of Array.prototype.sort (UTF-16 order).
TaskNameOrder == <<"a", "b">>

Forward == <<"forward">>
Inverse == <<"inverse">>
Other == <<"ordering">>

\* JSON values: numbers and arrays. A number is its integer part and the
\* digits of its fraction, without trailing zeros: 1.50 is Frac(1, <<"5">>)
\* and 1.0 is Num(1).
Frac(n, digits) == [kind |-> "number", value |-> n, frac |-> digits]

Num(n) == Frac(n, << >>)

Arr(items) == [kind |-> "array", items |-> items]

\* n opaque key frame ids.
KeyFrames(n) == [i \in 1..n |-> i]

\* The answer of an ordering question over n frames.
Ordering(n) == Arr([i \in 1..n |-> Num(i)])

RegularSamples ==
  { [type |-> t, task_name |-> n, key_frame_ids |-> KeyFrames(k),
     gt_answer |-> Ordering(k)] :
      t \in {Forward, Inverse}, n \in {"a", "b"}, k \in {1, 2} }

IrregularSamples ==
  { [type |-> Other, task_name |-> "a", key_frame_ids |-> KeyFrames(1),
     gt_answer |-> Ordering(1)],
    [type |-> Forward, task_name |-> "a"],
    [task_name |-> "a", key_frame_ids |-> KeyFrames(1),
     gt_answer |-> Ordering(1)] }

SampleUniverse == RegularSamples \cup IrregularSamples

RECURSIVE SeqsUpTo(_, _)
SeqsUpTo(S, n) ==
  IF n = 0 THEN { << >> }
  ELSE LET shorter == SeqsUpTo(S, n - 1)
       IN  shorter \cup { Append(q, x) : q \in shorter, x \in S }

\* The lines of the fetched file: a line is a text over the characters of
\* Chars (white space alone, or no JSON value), or the serialisation of a
\* sample, which holds no line break and no white space around it.
TextLines == { << >>, <<" ">>, <<"]">>, <<" ", "[">> }

Lines ==
  { [text |-> t] : t \in TextLines }
  \cup { [object |-> item] : item \in SampleUniverse }

\* The files: up to MaxSamples lines.
Files == SeqsUpTo(Lines, MaxSamples)

(***************************************************************************)
(* JavaScript primitives                                                   *)
(***************************************************************************)
Range(q) == { q[i] : i \in 1..Len(q) }

Digits == <<"0", "1", "2", "3", "4", "5", "6", "7", "8", "9">>

DigitValue(c) == (CHOOSE i \in 1..10 : Digits[i] = c) - 1

IsDigit(c) == \E i \in 1..10 : Digits[i] = c

\* String(n) for an integer n >= 0.
RECURSIVE StringOf(_)
StringOf(n) ==
  IF n < 10 THEN << Digits[n + 1] >>
  ELSE Append(StringOf(n \div 10), Digits[(n % 10) + 1])

\* NaN: a value no array element and no length is equal to.
NaN == 0 - 1

\* parseInt(s) for a string without sign or leading white space: the value
\* of the longest prefix of digits, NaN when there is none.
RECURSIVE DigitPrefixValue(_, _, _)
DigitPrefixValue(s, i, acc) ==
  IF i > Len(s) \/ ~IsDigit(s[i]) THEN acc
  ELSE DigitPrefixValue(s, i + 1, acc * 10 + DigitValue(s[i]))

ParseInt(s) ==
  IF s = << >> \/ ~IsDigit(s[1]) THEN NaN ELSE DigitPrefixValue(s, 1, 0)

\* Array.from(set).sort((a, b) => a - b)
RECURSIVE SortedNumbers(_)
SortedNumbers(S) ==
  IF S = {} THEN << >>
  ELSE LET m == CHOOSE x \in S : \A y \in S : x <= y
       IN  << m >> \o SortedNumbers(S \ {m})

\* Array.from(set).sort() on task names.
SortedNames(S) == SelectSeq(TaskNameOrder, LAMBDA n : n \in S)

\* Array.prototype.indexOf, 0-based, -1 when absent.
IndexOf(q, x) ==
  IF \E i \in 1..Len(q) : q[i] = x
  THEN (CHOOSE i \in 1..Len(q) : q[i] = x /\ \A j \in 1..(i - 1) : q[j] # x) - 1
  ELSE 0 - 1

\* Array.prototype.includes on an array of numbers; NaN is in none of them.
Includes(q, x) == x # NaN /\ \E i \in 1..Len(q) : q[i] = x

\* a === b on numbers (NaN equals nothing).
StrictEqNum(a, b) == a # NaN /\ b # NaN /\ a = b

\* Truthiness of an optional field of a sample.
TaskNameOf(item) == IF "task_name" \in DOMAIN item THEN item.task_name ELSE ""

HasKeyFrames(item) == "key_frame_ids" \in DOMAIN item

HasType(item) == "type" \in DOMAIN item

(***************************************************************************)
(* The viewer: a record of the fields of DatasetViewer and of the DOM      *)
(* state the code reads back                                               *)
(***************************************************************************)
Viewer ==
  [ allData |-> allData, filteredData |-> filteredData,
    currentIndex |-> currentIndex, currentSetting |-> currentSetting,
    currentTaskName |-> currentTaskName,
    currentStepLength |-> currentStepLength,
    availableTaskNames |-> availableTaskNames,
    availableStepLengths |-> availableStepLengths,
    showAnswer |-> showAnswer, stepOptions |-> stepOptions,
    displayed |-> displayed, verificationResult |-> verificationResult ]

\* constructor(), lines 3-21, before init() runs.
Constructed ==
  [ allData |-> << >>, filteredData |-> << >>, currentIndex |-> 0,
    currentSetting |-> "forward", currentTaskName |-> "",
    currentStepLength |-> << >>, availableTaskNames |-> << >>,
    availableStepLengths |-> << >>, showAnswer |-> FALSE,
    stepOptions |-> << >>, displayed |-> 0, verificationResult |-> "none" ]

\* The viewer is v.
Is(v) ==
  /\ allData = v.allData
  /\ filteredData = v.filteredData
  /\ currentIndex = v.currentIndex
  /\ currentSetting = v.currentSetting
  /\ currentTaskName = v.currentTaskName
  /\ currentStepLength = v.currentStepLength
  /\ availableTaskNames = v.availableTaskNames
  /\ availableStepLengths = v.availableStepLengths
  /\ showAnswer = v.showAnswer
  /\ stepOptions = v.stepOptions
  /\ displayed = v.displayed
  /\ verificationResult = v.verificationResult

\* The viewer becomes v.
Becomes(v) ==
  /\ allData' = v.allData
  /\ filteredData' = v.filteredData
  /\ currentIndex' = v.currentIndex
  /\ currentSetting' = v.currentSetting
  /\ currentTaskName' = v.currentTaskName
  /\ currentStepLength' = v.currentStepLength
  /\ availableTaskNames' = v.availableTaskNames
  /\ availableStepLengths' = v.availableStepLengths
  /\ showAnswer' = v.showAnswer
  /\ stepOptions' = v.stepOptions
  /\ displayed' = v.displayed
  /\ verificationResult' = v.verificationResult

Settings == <<"", "forward", "inverse">>

GetSettingFromType(type) ==
  IF "forward" \in Range(type) THEN "forward"
  ELSE IF "inverse" \in Range(type) THEN "inverse"
  ELSE ""

StepLengthOf(item) ==
  IF HasKeyFrames(item) THEN Len(item.key_frame_ids) ELSE 0

\* The callback of allData.filter in filterData.
FilterKeeps(v, item) ==
  /\ v.currentSetting # "" =>
       GetSettingFromType(item.type) = v.currentSetting
  /\ v.currentTaskName # "" => TaskNameOf(item) = v.currentTaskName
  /\ v.currentStepLength # << >> =>
       StrictEqNum(StepLengthOf(item), ParseInt(v.currentStepLength))

Positions(q) == [i \in 1..Len(q) |-> i]

\* FilterData without line 199: the revealed answer stays revealed.
FilterDataKeepsAnswer(v) ==
  [v EXCEPT
     !.filteredData =
        SelectSeq(Positions(v.allData),
                  LAMBDA i : FilterKeeps(v, v.allData[i])),
     !.currentIndex = 0]

FilterData(v) ==
  [v EXCEPT
     !.filteredData =
        SelectSeq(Positions(v.allData),
                  LAMBDA i : FilterKeeps(v, v.allData[i])),
     !.currentIndex = 0,
     !.showAnswer = FALSE]

\* updateUI re-renders the sample (or the no-data notice): the result div
\* of the previous rendering is gone. When filteredData[currentIndex] is
\* undefined nothing is rendered.
UpdateUI(v) ==
  IF Len(v.filteredData) = 0
  THEN [v EXCEPT !.displayed = 0, !.verificationResult = "none"]
  ELSE IF v.currentIndex + 1 \in DOMAIN v.filteredData
  THEN [v EXCEPT !.displayed = v.filteredData[v.currentIndex + 1],
                 !.verificationResult = "none"]
  ELSE v

OptionsFor(lengths) == [i \in 1..Len(lengths) |-> StringOf(lengths[i])]

UpdateFilterSelectors(v) ==
  LET v1 == IF Len(v.availableTaskNames) > 0 /\ v.currentTaskName = ""
            THEN [v EXCEPT !.currentTaskName = v.availableTaskNames[1]]
            ELSE v
      v2 == [v1 EXCEPT !.stepOptions = OptionsFor(v.availableStepLengths)]
  IN  IF Len(v2.availableStepLengths) > 0 /\ v2.currentStepLength = << >>
      THEN [v2 EXCEPT
              !.currentStepLength = StringOf(v2.availableStepLengths[1])]
      ELSE v2

PopulateFilterOptions(v) ==
  LET taskNames == { TaskNameOf(v.allData[i]) : i \in 1..Len(v.allData) }
                     \ {""}
      stepLengths ==
        { Len(v.allData[i].key_frame_ids) :
            i \in { j \in 1..Len(v.allData) : HasKeyFrames(v.allData[j]) } }
  IN  UpdateFilterSelectors(
        [v EXCEPT !.availableTaskNames = SortedNames(taskNames),
                  !.availableStepLengths = SortedNumbers(stepLengths)])

\* The step lengths of the samples matching a setting and a task name.
StepLengthsFor(data, setting, taskName) ==
  { Len(data[i].key_frame_ids) :
      i \in { j \in 1..Len(data) :
                /\ setting # "" =>
                     GetSettingFromType(data[j].type) = setting
                /\ taskName # "" => TaskNameOf(data[j]) = taskName
                /\ HasKeyFrames(data[j]) } }

\* PopulateStepLengthsForCurrentFilters without lines 149-155: the list is
\* recomputed and no default is selected.
PopulateStepLengthsWithoutDefault(v) ==
  LET lengths ==
        SortedNumbers(StepLengthsFor(v.allData, v.currentSetting,
                                     v.currentTaskName))
  IN  [v EXCEPT !.availableStepLengths = lengths,
                !.stepOptions = OptionsFor(lengths)]

PopulateStepLengthsForCurrentFilters(v) ==
  LET lengths ==
        SortedNumbers(StepLengthsFor(v.allData, v.currentSetting,
                                     v.currentTaskName))
      v1 == [v EXCEPT !.availableStepLengths = lengths,
                      !.stepOptions = OptionsFor(lengths)]
  IN  IF /\ Len(lengths) > 0
         /\ \/ v1.currentStepLength = << >>
            \/ ~Includes(lengths, ParseInt(v1.currentStepLength))
      THEN [v1 EXCEPT !.currentStepLength = StringOf(lengths[1])]
      ELSE v1

UpdateFilterUI(v) ==
  LET hasCurrentStep ==
        \E i \in 1..Len(v.stepOptions) : v.stepOptions[i] = v.currentStepLength
  IN  IF hasCurrentStep THEN v
      ELSE IF Len(v.stepOptions) > 0
      THEN FilterData([v EXCEPT !.currentStepLength = v.stepOptions[1]])
      ELSE v

(***************************************************************************)
(* Category moves: each returns whether it moved and the viewer it leaves  *)
(***************************************************************************)
Moved(v) == [moved |-> TRUE, v |-> v]

NotMoved(v) == [moved |-> FALSE, v |-> v]

\* MoveToNextSetting with the last setting in place of the next one.
MoveToNextSettingSkips(v) ==
  LET currentSettingIndex == IndexOf(Settings, v.currentSetting)
  IN  IF currentSettingIndex < Len(Settings) - 1
      THEN Moved(UpdateFilterUI(UpdateUI(FilterData(
             [v EXCEPT !.currentSetting = Settings[Len(Settings)]]))))
      ELSE NotMoved(v)

MoveToNextSetting(v) ==
  LET currentSettingIndex == IndexOf(Settings, v.currentSetting)
  IN  IF currentSettingIndex < Len(Settings) - 1
      THEN Moved(UpdateFilterUI(UpdateUI(FilterData(
             [v EXCEPT !.currentSetting = Settings[currentSettingIndex + 2]]))))
      ELSE NotMoved(v)

\* MoveToNextTask that enters the first task when no task is set.
MoveToNextTaskFromUnset(v) ==
  IF v.currentTaskName # ""
  THEN LET currentTaskIndex ==
             IndexOf(v.availableTaskNames, v.currentTaskName)
       IN  IF currentTaskIndex < Len(v.availableTaskNames) - 1
           THEN Moved(UpdateFilterUI(UpdateUI(
                  PopulateStepLengthsForCurrentFilters(FilterData(
                    [v EXCEPT
                       !.currentTaskName =
                          v.availableTaskNames[currentTaskIndex + 2],
                       !.currentStepLength = << >>])))))
           ELSE MoveToNextSetting([v EXCEPT !.currentTaskName = ""])
  ELSE IF Len(v.availableTaskNames) > 0
  THEN Moved(UpdateFilterUI(UpdateUI(
         PopulateStepLengthsForCurrentFilters(FilterData(
           [v EXCEPT !.currentTaskName = v.availableTaskNames[1]])))))
  ELSE MoveToNextSetting(v)

MoveToNextTask(v) ==
  IF v.currentTaskName # ""
  THEN LET currentTaskIndex ==
             IndexOf(v.availableTaskNames, v.currentTaskName)
       IN  IF currentTaskIndex < Len(v.availableTaskNames) - 1
           THEN Moved(UpdateFilterUI(UpdateUI(
                  PopulateStepLengthsForCurrentFilters(FilterData(
                    [v EXCEPT
                       !.currentTaskName =
                          v.availableTaskNames[currentTaskIndex + 2],
                       !.currentStepLength = << >>])))))
           ELSE MoveToNextSetting([v EXCEPT !.currentTaskName = ""])
  ELSE MoveToNextSetting(v)

\* MoveToNextCategory without the filterData() call of line 323.
MoveToNextCategoryWithoutFilter(v) ==
  IF v.currentStepLength # << >>
  THEN LET currentStepIndex ==
             IndexOf(v.availableStepLengths, ParseInt(v.currentStepLength))
       IN  IF currentStepIndex < Len(v.availableStepLengths) - 1
           THEN Moved(UpdateFilterUI(UpdateUI(
                  [v EXCEPT
                     !.currentStepLength =
                        StringOf(v.availableStepLengths[currentStepIndex + 2])])))
           ELSE MoveToNextTask([v EXCEPT !.currentStepLength = << >>])
  ELSE MoveToNextTask(v)

MoveToNextCategory(v) ==
  IF v.currentStepLength # << >>
  THEN LET currentStepIndex ==
             IndexOf(v.availableStepLengths, ParseInt(v.currentStepLength))
       IN  IF currentStepIndex < Len(v.availableStepLengths) - 1
           THEN Moved(UpdateFilterUI(UpdateUI(FilterData(
                  [v EXCEPT
                     !.currentStepLength =
                        StringOf(v.availableStepLengths[currentStepIndex + 2])]))))
           ELSE MoveToNextTask([v EXCEPT !.currentStepLength = << >>])
  ELSE MoveToNextTask(v)

\* Math.max(0, filteredData.length - 1)
LastIndex(v) ==
  IF Len(v.filteredData) - 1 > 0 THEN Len(v.filteredData) - 1 ELSE 0

GoToLast(v) == [v EXCEPT !.currentIndex = LastIndex(v)]

\* MoveToPreviousSetting that goes round to the last setting from the
\* first.
MoveToPreviousSettingWraps(v) ==
  LET currentSettingIndex == IndexOf(Settings, v.currentSetting)
      previous == IF currentSettingIndex > 0 THEN currentSettingIndex
                  ELSE Len(Settings)
  IN  Moved(UpdateFilterUI(UpdateUI(GoToLast(FilterData(
        [v EXCEPT !.currentSetting = Settings[previous]])))))

MoveToPreviousSetting(v) ==
  LET currentSettingIndex == IndexOf(Settings, v.currentSetting)
  IN  IF currentSettingIndex > 0
      THEN Moved(UpdateFilterUI(UpdateUI(GoToLast(FilterData(
             [v EXCEPT !.currentSetting = Settings[currentSettingIndex]])))))
      ELSE NotMoved(v)

MoveToPreviousTask(v) ==
  IF v.currentTaskName # ""
  THEN LET currentTaskIndex ==
             IndexOf(v.availableTaskNames, v.currentTaskName)
       IN  IF currentTaskIndex > 0
           THEN Moved(UpdateFilterUI(UpdateUI(GoToLast(
                  PopulateStepLengthsForCurrentFilters(FilterData(
                    [v EXCEPT
                       !.currentTaskName =
                          v.availableTaskNames[currentTaskIndex],
                       !.currentStepLength = << >>]))))))
           ELSE MoveToPreviousSetting([v EXCEPT !.currentTaskName = ""])
  ELSE MoveToPreviousSetting(v)

MoveToPreviousCategory(v) ==
  IF v.currentStepLength # << >>
  THEN LET currentStepIndex ==
             IndexOf(v.availableStepLengths, ParseInt(v.currentStepLength))
       IN  IF currentStepIndex > 0
           THEN Moved(UpdateFilterUI(UpdateUI(GoToLast(FilterData(
                  [v EXCEPT
                     !.currentStepLength =
                        StringOf(v.availableStepLengths[currentStepIndex])])))))
           ELSE MoveToPreviousTask([v EXCEPT !.currentStepLength = << >>])
  ELSE MoveToPreviousTask(v)

(***************************************************************************)
(* Handlers                                                                *)
(***************************************************************************)
\* NavigateNext with the bound filteredData.length in place of
\* filteredData.length - 1.
NavigateNextPastEnd(v) ==
  IF v.currentIndex < Len(v.filteredData)
  THEN UpdateUI([v EXCEPT !.currentIndex = v.currentIndex + 1,
                          !.showAnswer = FALSE])
  ELSE MoveToNextCategory(v).v

NavigateNext(v) ==
  IF v.currentIndex < Len(v.filteredData) - 1
  THEN UpdateUI([v EXCEPT !.currentIndex = v.currentIndex + 1,
                          !.showAnswer = FALSE])
  ELSE MoveToNextCategory(v).v

\* NavigatePrevious with the guard currentIndex > 1 in place of
\* currentIndex > 0.
NavigatePreviousFromSecond(v) ==
  IF v.currentIndex > 1
  THEN UpdateUI([v EXCEPT !.currentIndex = v.currentIndex - 1,
                          !.showAnswer = FALSE])
  ELSE MoveToPreviousCategory(v).v

NavigatePrevious(v) ==
  IF v.currentIndex > 0
  THEN UpdateUI([v EXCEPT !.currentIndex = v.currentIndex - 1,
                          !.showAnswer = FALSE])
  ELSE MoveToPreviousCategory(v).v

OnSettingChange(v, value) ==
  UpdateUI(FilterData(PopulateStepLengthsForCurrentFilters(
    [v EXCEPT !.currentSetting = value, !.currentStepLength = << >>])))

\* OnTaskChange without line 228: the step length is not reset.
OnTaskChangeKeepsStep(v, value) ==
  UpdateUI(FilterData(PopulateStepLengthsForCurrentFilters(
    [v EXCEPT !.currentTaskName = value])))

OnTaskChange(v, value) ==
  UpdateUI(FilterData(PopulateStepLengthsForCurrentFilters(
    [v EXCEPT !.currentTaskName = value, !.currentStepLength = << >>])))

OnStepChange(v, value) ==
  UpdateUI(FilterData([v EXCEPT !.currentStepLength = value]))

OnAnswerToggle(v) == UpdateUI([v EXCEPT !.showAnswer = ~v.showAnswer])

\* init() after a load that did not throw: lines 25-31, with the
\* filterData() call at the end of loadData (line 51).
InitViewer(data) ==
  UpdateUI(UpdateFilterUI(FilterData(PopulateFilterOptions(FilterData(
    [Constructed EXCEPT !.allData = data])))))

\* filterData() at line 51 runs with currentSetting = 'forward' and calls
\* type.includes on every sample: a sample without a type throws.
LoadThrows(data) == \E i \in 1..Len(data) : ~HasType(data[i])

(***************************************************************************)
(* The answer verifier                                                     *)
(***************************************************************************)
\* The characters answers are typed from.
Chars == {"[", "]", ",", ".", "0", "1", "2", " "}

RawInputs == SeqsUpTo(Chars, MaxInputLen)

\* gt_answer of a sample: a scalar or a sequence.
GroundTruths ==
  { Num(1), Arr(<< >>), Arr(<<Num(1)>>), Arr(<<Num(1), Num(2)>>),
    Arr(<<Num(11)>>) }

\* data.gt_answer, undefined when the sample has none.
Undefined == [kind |-> "undefined"]

GtAnswerOf(item) ==
  IF "gt_answer" \in DOMAIN item THEN item.gt_answer ELSE Undefined

\* String.prototype.trim
RECURSIVE TrimLeft(_)
TrimLeft(s) ==
  IF s # << >> /\ Head(s) = " " THEN TrimLeft(Tail(s)) ELSE s

RECURSIVE TrimRight(_)
TrimRight(s) ==
  IF s # << >> /\ s[Len(s)] = " "
  THEN TrimRight(SubSeq(s, 1, Len(s) - 1))
  ELSE s

Trim(s) == TrimRight(TrimLeft(s))

\* JSON.parse, for texts over Chars: numbers without sign or exponent,
\* arrays, white space; anything else is a SyntaxError.
ParseFailure == [ok |-> FALSE]

Parsed(value, next) == [ok |-> TRUE, value |-> value, next |-> next]

RECURSIVE SkipWhitespace(_, _)
SkipWhitespace(s, i) ==
  IF i <= Len(s) /\ s[i] = " " THEN SkipWhitespace(s, i + 1) ELSE i

RECURSIVE EndOfDigits(_, _)
EndOfDigits(s, i) ==
  IF i <= Len(s) /\ IsDigit(s[i]) THEN EndOfDigits(s, i + 1) ELSE i

RECURSIVE StripTrailingZeros(_)
StripTrailingZeros(digits) ==
  IF digits # << >> /\ digits[Len(digits)] = "0"
  THEN StripTrailingZeros(SubSeq(digits, 1, Len(digits) - 1))
  ELSE digits

\* A JSON number: an integer part, 0 alone or starting with a non-zero
\* digit, then optionally a point and at least one digit.
ParseNumber(s, i) ==
  LET e == IF s[i] = "0" THEN i + 1 ELSE EndOfDigits(s, i)
      n == DigitPrefixValue(SubSeq(s, i, e - 1), 1, 0)
  IN  IF e <= Len(s) /\ s[e] = "."
      THEN LET f == EndOfDigits(s, e + 1)
           IN  IF f = e + 1 THEN ParseFailure
               ELSE Parsed(Frac(n, StripTrailingZeros(SubSeq(s, e + 1, f - 1))),
                           f)
      ELSE Parsed(Num(n), e)

RECURSIVE ParseValue(_, _)
RECURSIVE ParseElements(_, _, _)
ParseValue(s, i) ==
  IF i > Len(s) THEN ParseFailure
  ELSE IF s[i] = "["
  THEN LET j == SkipWhitespace(s, i + 1)
       IN  IF j <= Len(s) /\ s[j] = "]" THEN Parsed(Arr(<< >>), j + 1)
           ELSE ParseElements(s, j, << >>)
  ELSE IF IsDigit(s[i]) THEN ParseNumber(s, i)
  ELSE ParseFailure

ParseElements(s, i, acc) ==
  LET r == ParseValue(s, i)
  IN  IF ~r.ok THEN ParseFailure
      ELSE LET j == SkipWhitespace(s, r.next)
           IN  IF j > Len(s) THEN ParseFailure
               ELSE IF s[j] = ","
               THEN ParseElements(s, SkipWhitespace(s, j + 1),
                                  Append(acc, r.value))
               ELSE IF s[j] = "]"
               THEN Parsed(Arr(Append(acc, r.value)), j + 1)
               ELSE ParseFailure

JSONParse(s) ==
  LET r == ParseValue(s, SkipWhitespace(s, 1))
  IN  IF r.ok /\ SkipWhitespace(s, r.next) > Len(s) THEN r
      ELSE ParseFailure

\* JSONStringify with the elements of an array joined without a separator.
RECURSIVE JSONStringifyNoSeparator(_)
RECURSIVE JoinNoSeparator(_, _)
JSONStringifyNoSeparator(value) ==
  IF value.kind = "undefined" THEN << [kind |-> "undefined"] >>
  ELSE IF value.kind = "number"
  THEN StringOf(value.value)
       \o (IF value.frac = << >> THEN << >> ELSE <<".">> \o value.frac)
  ELSE <<"[">> \o JoinNoSeparator(value.items, 1) \o <<"]">>

JoinNoSeparator(items, i) ==
  IF i > Len(items) THEN << >>
  ELSE JSONStringifyNoSeparator(items[i]) \o JoinNoSeparator(items, i + 1)

\* JSON.stringify of a number or an array; of undefined it is undefined,
\* which is no string: a sequence that holds no character stands for it.
RECURSIVE JSONStringify(_)
RECURSIVE JoinStringified(_, _)
JSONStringify(value) ==
  IF value.kind = "undefined" THEN << Undefined >>
  ELSE IF value.kind = "number"
  THEN StringOf(value.value)
       \o (IF value.frac = << >> THEN << >> ELSE <<".">> \o value.frac)
  ELSE <<"[">> \o JoinStringified(value.items, 1) \o <<"]">>

JoinStringified(items, i) ==
  IF i > Len(items) THEN << >>
  ELSE IF i = Len(items) THEN JSONStringify(items[i])
  ELSE JSONStringify(items[i]) \o <<",">> \o JoinStringified(items, i + 1)

\* num => Number.isInteger(num) && num >= 1 && num <= 10
ValidNumber(element) ==
  /\ element.kind = "number" /\ element.frac = << >>
  /\ element.value >= 1 /\ element.value <= 10

InvalidFormat == "Invalid format. Please use [1, 2, 3] format."
MustBeArray == "Answer must be an array."
MustBeInRange == "All numbers must be integers between 1 and 10."
Correct == "Correct! Well done!"
Incorrect == "Maybe Incorrect!"

\* VerifyAnswer with the comparison made before the range check.
VerifyAnswerComparesFirst(inputValue, gt) ==
  LET parsed == JSONParse(Trim(inputValue))
  IN  IF ~parsed.ok THEN InvalidFormat
      ELSE IF parsed.value.kind # "array" THEN MustBeArray
      ELSE IF JSONStringify(parsed.value) = JSONStringify(gt) THEN Correct
      ELSE IF ~(\A i \in 1..Len(parsed.value.items) :
                  ValidNumber(parsed.value.items[i]))
      THEN MustBeInRange
      ELSE Incorrect

\* verifyAnswer: the message it writes to the result div.
VerifyAnswer(inputValue, gt) ==
  LET parsed == JSONParse(Trim(inputValue))
  IN  IF ~parsed.ok THEN InvalidFormat
      ELSE IF parsed.value.kind # "array" THEN MustBeArray
      ELSE IF ~(\A i \in 1..Len(parsed.value.items) :
                  ValidNumber(parsed.value.items[i]))
      THEN MustBeInRange
      ELSE IF JSONStringify(parsed.value) = JSONStringify(gt) THEN Correct
      ELSE Incorrect

(***************************************************************************)
(* loadData and init                                                       *)
(***************************************************************************)
\* line.trim() is the empty string.
IsBlank(line) == "text" \in DOMAIN line /\ Trim(line.text) = << >>

\* text.trim().split('\n').filter(line => line.trim()): the lines that are
\* not white space alone (the trim of the text takes nothing else away:
\* JSON.parse skips the white space around a value).
NonBlankLines(file) == SelectSeq(file, LAMBDA line : ~IsBlank(line))

\* JSON.parse(line)
ParseLine(line) ==
  IF "object" \in DOMAIN line THEN Parsed(line.object, 0)
  ELSE JSONParse(line.text)

\* What init() caught.
NoError == "none"
FetchRejected == "fetch rejected"
SyntaxError == "SyntaxError"
TypeError == "TypeError"

\* LoadData with the samples parsed before the malformed line kept.
LoadDataKeepsParsed(file) ==
  LET lines == NonBlankLines(file)
      bad == { i \in 1..Len(lines) : ~ParseLine(lines[i]).ok }
  IN  IF bad # {}
      THEN LET first == CHOOSE i \in bad : \A j \in bad : i <= j
           IN  [error |-> SyntaxError,
                v |-> [Constructed EXCEPT
                         !.allData = [i \in 1..(first - 1) |->
                                        ParseLine(lines[i]).value]]]
      ELSE LET data == [i \in 1..Len(lines) |-> ParseLine(lines[i]).value]
           IN  IF LoadThrows(data)
               THEN [error |-> TypeError,
                     v |-> [Constructed EXCEPT !.allData = data]]
               ELSE [error |-> NoError, v |-> InitViewer(data)]

\* init() from the moment the fetch has resolved with the text of file:
\* the error it catches and the viewer it leaves. JSON.parse throwing in
\* map() leaves allData unassigned; filterData throwing at line 51 finds
\* it assigned.
LoadData(file) ==
  LET lines == NonBlankLines(file)
  IN  IF \E i \in 1..Len(lines) : ~ParseLine(lines[i]).ok
      THEN [error |-> SyntaxError, v |-> Constructed]
      ELSE LET data == [i \in 1..Len(lines) |-> ParseLine(lines[i]).value]
           IN  IF LoadThrows(data)
               THEN [error |-> TypeError,
                     v |-> [Constructed EXCEPT !.allData = data]]
               ELSE [error |-> NoError, v |-> InitViewer(data)]

(***************************************************************************)
(* The viewer as a state machine                                           *)
(***************************************************************************)
\* After construction: init() is suspended at the fetch.
Init ==
  /\ phase = "loading"
  /\ Is(Constructed)
  /\ userInput = << >>
  /\ loadError = NoError

\* The fetch rejects: allData is never assigned.
LoadFails ==
  /\ phase = "loading"
  /\ phase' = "error"
  /\ loadError' = FetchRejected
  /\ UNCHANGED <<allData, filteredData, currentIndex, currentSetting,
                 currentTaskName, currentStepLength, availableTaskNames,
                 availableStepLengths, showAnswer, stepOptions, displayed,
                 verificationResult, userInput>>

\* The fetch resolves with the text of a file and init() runs on, to its
\* end or to its catch clause.
Load ==
  /\ phase = "loading"
  /\ \E file \in Files :
       LET loaded == LoadData(file)
       IN  /\ phase' = (IF loaded.error = NoError THEN "ready" ELSE "error")
           /\ loadError' = loaded.error
           /\ Becomes(loaded.v)
  /\ UNCHANGED userInput

\* The option values of setting-select.
SettingOptions == {"", "forward", "inverse"}

SettingChange ==
  /\ phase = "ready"
  /\ \E value \in SettingOptions : Becomes(OnSettingChange(Viewer, value))
  /\ UNCHANGED <<phase, userInput, loadError>>

TaskChange ==
  /\ phase = "ready"
  /\ \E value \in Range(availableTaskNames) :
       Becomes(OnTaskChange(Viewer, value))
  /\ UNCHANGED <<phase, userInput, loadError>>

StepChange ==
  /\ phase = "ready"
  /\ \E value \in Range(stepOptions) : Becomes(OnStepChange(Viewer, value))
  /\ UNCHANGED <<phase, userInput, loadError>>

\* Advance with the keydown listener registered by the constructor.
AdvanceBeforeLoad ==
  /\ phase \in {"loading", "ready"}
  /\ Becomes(NavigateNext(Viewer))
  /\ UNCHANGED <<phase, userInput, loadError>>

Advance ==
  /\ phase = "ready"
  /\ Becomes(NavigateNext(Viewer))
  /\ UNCHANGED <<phase, userInput, loadError>>

Retreat ==
  /\ phase = "ready"
  /\ Becomes(NavigatePrevious(Viewer))
  /\ UNCHANGED <<phase, userInput, loadError>>

AnswerToggle ==
  /\ phase = "ready"
  /\ Becomes(OnAnswerToggle(Viewer))
  /\ UNCHANGED <<phase, userInput, loadError>>

\* Answers typed in the viewer session: one for each check of verifyAnswer
\* to reject and one that is compared with the ground truth.
TypedInputs == { <<"]">>, <<"1">>, <<"[", "0", "]">>, <<"[", "1", "]">> }

\* Verify with a click handler that also hides the revealed answer.
VerifyHidesAnswer ==
  /\ phase = "ready"
  /\ displayed # 0
  /\ \E raw \in TypedInputs :
       verificationResult' =
         VerifyAnswer(raw, GtAnswerOf(allData[displayed]))
  /\ showAnswer' = FALSE
  /\ UNCHANGED <<phase, allData, filteredData, currentIndex, currentSetting,
                 currentTaskName, currentStepLength, availableTaskNames,
                 availableStepLengths, stepOptions, displayed, userInput,
                 loadError>>

\* The user types an answer and clicks the verify button of the displayed
\* sample (or presses Enter in the input).
Verify ==
  /\ phase = "ready"
  /\ displayed # 0
  /\ \E raw \in TypedInputs :
       verificationResult' =
         VerifyAnswer(raw, GtAnswerOf(allData[displayed]))
  /\ UNCHANGED <<phase, allData, filteredData, currentIndex, currentSetting,
                 currentTaskName, currentStepLength, availableTaskNames,
                 availableStepLengths, showAnswer, stepOptions, displayed,
                 userInput, loadError>>

Next ==
  \/ Load
  \/ LoadFails
  \/ SettingChange
  \/ TaskChange
  \/ StepChange
  \/ Advance
  \/ Retreat
  \/ AnswerToggle
  \/ Verify

Spec == Init /\ [][Next]_vars

(***************************************************************************)
(* The verifier alone: a sample is on display, its gt_answer and the text  *)
(* of the answer input are arbitrary, and the verify button is clicked.    *)
(***************************************************************************)
InitVerify ==
  /\ phase = "ready"
  /\ \E gt \in GroundTruths :
       Is(InitViewer(<< [type |-> Forward, task_name |-> "a",
                         key_frame_ids |-> KeyFrames(1), gt_answer |-> gt] >>))
  /\ userInput \in RawInputs
  /\ loadError = NoError

VerifyInput ==
  /\ phase = "ready"
  /\ displayed # 0
  /\ verificationResult' =
       VerifyAnswer(userInput, GtAnswerOf(allData[displayed]))
  /\ UNCHANGED <<phase, allData, filteredData, currentIndex, currentSetting,
                 currentTaskName, currentStepLength, availableTaskNames,
                 availableStepLengths, showAnswer, stepOptions, displayed,
                 userInput, loadError>>

NextVerify == VerifyInput

SpecVerify == InitVerify /\ [][NextVerify]_vars

(***************************************************************************)
(* Runs of advance()                                                       *)
(***************************************************************************)
\* navigateNext renders (calls updateUI) unless no category is left.
AdvanceRenders(v) ==
  v.currentIndex < Len(v.filteredData) - 1 \/ MoveToNextCategory(v).moved

\* The samples rendered by repeated advance() from v, in order, until
\* advance() changes nothing (or the fuel runs out).
RECURSIVE ShownByAdvancing(_, _)
ShownByAdvancing(v, fuel) ==
  LET w == NavigateNext(v)
  IN  IF fuel = 0 \/ w = v THEN << >>
      ELSE (IF AdvanceRenders(v) /\ w.displayed # 0
            THEN << w.displayed >> ELSE << >>)
           \o ShownByAdvancing(w, fuel - 1)

\* The viewer repeated advance() ends in.
RECURSIVE AfterAdvancing(_, _)
AfterAdvancing(v, fuel) ==
  LET w == NavigateNext(v)
  IN  IF fuel = 0 \/ w = v THEN v ELSE AfterAdvancing(w, fuel - 1)

\* The viewer repeated retreat() ends in.
RECURSIVE AfterRetreating(_, _)
AfterRetreating(v, fuel) ==
  LET w == NavigatePrevious(v)
  IN  IF fuel = 0 \/ w = v THEN v ELSE AfterRetreating(w, fuel - 1)

(***************************************************************************)
(* Properties                                                              *)
(***************************************************************************)
Ready == phase = "ready"

\* What the data model says of a FilterState (setting, taskName,
\* stepCount), stated on the samples and not on the code's filter.
SettingMatches(item, setting) ==
  setting = "" \/ GetSettingFromType(item.type) = setting

TaskMatches(item, taskName) ==
  taskName = "" \/ ("task_name" \in DOMAIN item /\ item.task_name = taskName)

StepMatches(item, stepCount) ==
  \/ stepCount = << >>
  \/ /\ "key_frame_ids" \in DOMAIN item
     /\ StringOf(Len(item.key_frame_ids)) = stepCount
  \/ /\ "key_frame_ids" \notin DOMAIN item
     /\ stepCount = <<"0">>

\* The positions, in load order, of the samples of data that match.
RECURSIVE MatchingFrom(_, _, _, _, _)
MatchingFrom(data, i, setting, taskName, stepCount) ==
  IF i > Len(data) THEN << >>
  ELSE (IF /\ SettingMatches(data[i], setting)
           /\ TaskMatches(data[i], taskName)
           /\ StepMatches(data[i], stepCount)
        THEN << i >> ELSE << >>)
       \o MatchingFrom(data, i + 1, setting, taskName, stepCount)

Matching(w) ==
  MatchingFrom(w.allData, 1, w.currentSetting, w.currentTaskName,
               w.currentStepLength)

\* The key_frame_ids lengths observed among the samples matching a setting
\* and a task name.
ObservedStepCounts(data, setting, taskName) ==
  LET observedAt ==
        { i \in 1..Len(data) :
            /\ SettingMatches(data[i], setting)
            /\ TaskMatches(data[i], taskName)
            /\ "key_frame_ids" \in DOMAIN data[i] }
  IN  { Len(data[i].key_frame_ids) : i \in observedAt }

\* s is the ascending list of the elements of S.
IsAscendingListOf(q, S) ==
  /\ Range(q) = S
  /\ \A i \in 1..(Len(q) - 1) : q[i] < q[i + 1]

\* C1: after a successful load, whatever selector changes, advance() and
\* retreat() calls were made, the filtered list is exactly the subsequence
\* of the loaded samples, in load order, that match the current
\* FilterState.
C1_FilteredListIsTheFilterOfTheState == Ready => filteredData = Matching(Viewer)

\* Every sample has a setting (forward or inverse), a task name and key
\* frames: the hierarchy setting > task > step count covers the dataset.
EverySampleHasACategory ==
  \A i \in 1..Len(allData) :
    /\ GetSettingFromType(allData[i].type) # ""
    /\ "task_name" \in DOMAIN allData[i]
    /\ "key_frame_ids" \in DOMAIN allData[i]

\* The viewer is at the very first position: the first setting that holds
\* samples (forward, the setting the viewer starts in), first task, first
\* step count, index 0.
AtFirstPosition ==
  /\ Ready
  /\ currentSetting = "forward"
  /\ currentTaskName =
       (IF availableTaskNames = << >> THEN "" ELSE availableTaskNames[1])
  /\ currentStepLength =
       (IF availableStepLengths = << >> THEN << >>
        ELSE StringOf(availableStepLengths[1]))
  /\ currentIndex = 0

\* More calls of advance() than any run needs to come to rest.
AdvanceFuel == 12 * (MaxSamples + 2)

ShownFromHere ==
  (IF displayed # 0 THEN << displayed >> ELSE << >>)
  \o ShownByAdvancing(Viewer, AdvanceFuel)

\* C2: from the very first position, advance() alone shows every sample of
\* the dataset exactly once and then is a no-op. (Stated for the datasets
\* whose samples all lie in a category, and from the forward setting: under
\* the setting none every sample would be listed a second time.)
C2_AdvanceShowsEverySampleOnce ==
  (AtFirstPosition /\ EverySampleHasACategory) =>
    /\ \A i \in 1..Len(allData) :
         Cardinality({ k \in 1..Len(ShownFromHere) : ShownFromHere[k] = i }) = 1
    /\ LET end == AfterAdvancing(Viewer, AdvanceFuel)
       IN  NavigateNext(end) = end

\* C3: after initialisation stepCount is unset or is one of the
\* key_frame_ids lengths observed among the samples matching the current
\* setting and taskName.
C3_StepCountIsObserved ==
  Ready =>
    \/ currentStepLength = << >>
    \/ \E n \in ObservedStepCounts(allData, currentSetting, currentTaskName) :
         StringOf(n) = currentStepLength

\* C4: the index is never negative, is at most len(filtered list) - 1 when
\* the list is not empty, and is 0 when it is empty.
C4_IndexInsideFilteredList ==
  /\ currentIndex >= 0
  /\ filteredData # << >> => currentIndex <= Len(filteredData) - 1
  /\ filteredData = << >> => currentIndex = 0

\* C4's case: navigation has brought the index to the last item of a list
\* of several.
C4_Witness ==
  Ready /\ currentIndex > 0 /\ currentIndex = Len(filteredData) - 1

\* C5: after initialisation availableStepLengths is the ascending list of
\* the distinct key_frame_ids lengths of the samples matching the current
\* setting and taskName.
C5_AvailableStepLengthsAreCurrent ==
  Ready =>
    IsAscendingListOf(availableStepLengths,
      ObservedStepCounts(allData, currentSetting, currentTaskName))

\* The viewers a change of the setting selector or of the task selector can
\* leave.
AfterSelectorChange ==
  { OnSettingChange(Viewer, value) : value \in SettingOptions }
  \cup { OnTaskChange(Viewer, value) : value \in Range(availableTaskNames) }

RecomputedAndRefiltered(w) ==
  /\ IsAscendingListOf(w.availableStepLengths,
       ObservedStepCounts(w.allData, w.currentSetting, w.currentTaskName))
  /\ w.filteredData = Matching(w)
  /\ w.currentIndex = 0

\* C6 as claimed: after a change of the setting or task selector stepCount
\* is unset, availableStepLengths is recomputed for the new pair, the
\* filtered list is the filter of the new FilterState and index is 0.
C6_SelectorChangeUnsetsStepCount ==
  Ready =>
    \A w \in AfterSelectorChange :
      w.currentStepLength = << >> /\ RecomputedAndRefiltered(w)

\* C6 amended: after a change of the setting or task selector stepCount is
\* the smallest value of the recomputed availableStepLengths (unset only
\* when that list is empty), availableStepLengths is recomputed for the new
\* pair, the filtered list is the filter of the new FilterState and index
\* is 0.
C6_SelectorChangeSelectsFirstStepCount ==
  Ready =>
    \A w \in AfterSelectorChange :
      /\ w.currentStepLength =
           (IF w.availableStepLengths = << >> THEN << >>
            ELSE StringOf(w.availableStepLengths[1]))
      /\ RecomputedAndRefiltered(w)

\* C6's case: a selector change moves the viewer from one step count to the
\* smallest one of another list of step counts.
C6_Witness ==
  /\ Ready
  /\ \E w \in AfterSelectorChange :
       /\ w.availableStepLengths # availableStepLengths
       /\ Len(w.availableStepLengths) > 1
       /\ currentStepLength # << >>
       /\ w.currentStepLength # currentStepLength

AfterTaskChange ==
  { OnTaskChange(Viewer, value) : value \in Range(availableTaskNames) }

\* C7 as claimed: after any change of the task selector stepCount is a value
\* contained in the availableStepLengths recomputed for the new task.
C7_TaskChangeSelectsAvailableStepCount ==
  Ready =>
    \A w \in AfterTaskChange :
      \E n \in ObservedStepCounts(w.allData, w.currentSetting,
                                  w.currentTaskName) :
        /\ w.currentStepLength = StringOf(n)
        /\ Includes(w.availableStepLengths, n)

\* C7 amended: after any change of the task selector stepCount is a value
\* contained in the availableStepLengths recomputed for the new task, or is
\* unset when no step count is available for it; a step count that is not
\* available for the new task is never left selected.
C7_TaskChangeLeavesNoStaleStepCount ==
  Ready =>
    \A w \in AfterTaskChange :
      LET observed == ObservedStepCounts(w.allData, w.currentSetting,
                                         w.currentTaskName)
      IN  IF observed = {} THEN w.currentStepLength = << >>
          ELSE \E n \in observed :
                 /\ w.currentStepLength = StringOf(n)
                 /\ Includes(w.availableStepLengths, n)

\* C7's case: the selected step count is not available for the task the
\* user changes to, and another one is.
C7_Witness ==
  /\ Ready
  /\ currentStepLength # << >>
  /\ \E w \in AfterTaskChange :
       /\ w.currentTaskName # currentTaskName
       /\ w.availableStepLengths # << >>
       /\ ~Includes(w.availableStepLengths, ParseInt(currentStepLength))

\* C8: when advance() stays inside the current list, advance() followed by
\* retreat() returns to the original index and FilterState and leaves the
\* filtered list unchanged.
C8_AdvanceThenRetreatReturns ==
  (Ready /\ currentIndex < Len(filteredData) - 1) =>
    LET w == NavigatePrevious(NavigateNext(Viewer))
    IN  /\ w.currentIndex = currentIndex
        /\ w.currentSetting = currentSetting
        /\ w.currentTaskName = currentTaskName
        /\ w.currentStepLength = currentStepLength
        /\ w.filteredData = filteredData

\* C8's case: the viewer has advanced inside a list and is still not at its
\* end.
C8_Witness ==
  Ready /\ currentIndex > 0 /\ currentIndex < Len(filteredData) - 1

(***************************************************************************)
(* Properties of the verifier, under SpecVerify                            *)
(***************************************************************************)
Verified == verificationResult # "none"

\* What the user typed, read as a JSON text.
TypedValue == JSONParse(Trim(userInput))

TypedIsSequence == TypedValue.ok /\ TypedValue.value.kind = "array"

TypedInRange ==
  /\ TypedIsSequence
  /\ \A i \in 1..Len(TypedValue.value.items) :
       \E n \in 1..10 : TypedValue.value.items[i] = Num(n)

GroundTruth == GtAnswerOf(allData[displayed])

\* C9: the checks are applied in the order parse, is-a-sequence, range,
\* compare and the first failing one decides: unparsable input is
\* rejected as malformed, a parsed value that is not a sequence as not a
\* sequence, a sequence with an element outside the integers 1..10 as out
\* of range even when it equals the ground truth, and a verdict is given
\* only when all three checks pass.
C9_FirstFailingCheckDecides ==
  Verified =>
    /\ ~TypedValue.ok => verificationResult = InvalidFormat
    /\ (TypedValue.ok /\ ~TypedIsSequence) => verificationResult = MustBeArray
    /\ (TypedIsSequence /\ ~TypedInRange) => verificationResult = MustBeInRange
    /\ verificationResult \in {Correct, Incorrect} => TypedInRange

\* C9's case: the typed sequence equals the ground truth and is rejected as
\* out of range.
C9_Witness ==
  /\ Verified
  /\ TypedIsSequence
  /\ TypedValue.value = GroundTruth
  /\ verificationResult = MustBeInRange

\* The typed sequence and the ground truth are sequences of the same length
\* with equal elements at every position.
SameSequence ==
  /\ GroundTruth.kind = "array"
  /\ Len(GroundTruth.items) = Len(TypedValue.value.items)
  /\ \A i \in 1..Len(GroundTruth.items) :
       GroundTruth.items[i] = TypedValue.value.items[i]

\* C10: for an input that parses to a sequence of integers in 1..10 and
\* any ground truth, the verdict is correct exactly when the sequence has
\* the length of the ground truth and equals it element by element in
\* order, and incorrect otherwise; neither is an error.
C10_VerdictIsExactSequenceEquality ==
  (Verified /\ TypedInRange) =>
    IF SameSequence THEN verificationResult = Correct
    ELSE verificationResult = Incorrect

\* C10's case: a two-element answer in another order than the ground truth
\* is found incorrect.
C10_Witness ==
  /\ Verified
  /\ TypedInRange
  /\ GroundTruth.kind = "array"
  /\ Len(GroundTruth.items) = 2
  /\ Len(TypedValue.value.items) = 2
  /\ Range(TypedValue.value.items) = Range(GroundTruth.items)
  /\ verificationResult = Incorrect

(***************************************************************************)
(* Properties of the viewer session, under Spec                            *)
(***************************************************************************)
\* A step in which a verification writes an outcome to the result div.
VerificationStep ==
  verificationResult' # "none" /\ verificationResult' # verificationResult

\* The guards of the handlers: the listeners of the selectors, of the
\* navigation buttons and of the reveal button are registered, and a sample
\* with its verify button is on display.
ControlsAnswer == phase = "ready" /\ displayed # 0

\* C11: a verification, whatever its outcome, leaves setting, taskName,
\* stepCount, availableStepLengths, the filtered list, the index and the
\* reveal flag unchanged, and every selector, navigation, toggle and verify
\* action is enabled after it.
C11_VerificationChangesNothingElse ==
  [][VerificationStep =>
       /\ UNCHANGED <<currentSetting, currentTaskName, currentStepLength,
                      availableStepLengths, filteredData, currentIndex,
                      showAnswer, availableTaskNames, stepOptions>>
       /\ ControlsAnswer']_vars

\* C11's case: an answer was rejected as out of range while the answer of a
\* sample further down the list was revealed.
C11_Witness ==
  /\ verificationResult = MustBeInRange
  /\ showAnswer
  /\ currentIndex > 0

\* A line that is no JSON value.
IsMalformed(line) == ~IsBlank(line) /\ ~ParseLine(line).ok

\* C12: if the initial load fails because the fetch rejects or a non-blank
\* line is not valid JSON, the viewer is in an error state it never leaves:
\* the sample set is empty (no parsed sample is kept), no handler is
\* registered and the load is not retried, so nothing can happen any more;
\* and a file whose lines are blank or valid JSON never fails this way.
C12_FailedLoadKeepsNothing ==
  /\ loadError \in {FetchRejected, SyntaxError} =>
       /\ phase = "error"
       /\ Is(Constructed)
       /\ ~ENABLED Next
  /\ phase = "loading" =>
       \A file \in Files :
         LoadData(file).error = SyntaxError <=>
           \E i \in 1..Len(file) : IsMalformed(file[i])

\* C12's case: the load failed on a malformed line; some files that fail
\* so hold a sample before the malformed line and some hold blank lines.
C12_Witness ==
  /\ loadError = SyntaxError
  /\ phase = "error"
  /\ \E file \in Files :
       /\ Len(file) = 3
       /\ "object" \in DOMAIN file[1]
       /\ IsBlank(file[2])
       /\ IsMalformed(file[3])
       /\ LoadData(file).error = SyntaxError

\* The viewer is at the last index of the filtered list (or the list is
\* empty).
AtLastIndex == Ready /\ currentIndex >= Len(filteredData) - 1

\* The values of availableStepLengths larger than the current stepCount.
LargerStepCounts ==
  IF currentStepLength = << >> THEN {}
  ELSE { n \in Range(availableStepLengths) : n > ParseInt(currentStepLength) }

\* C13: advance() at the last index, with stepCount set and not the largest
\* value of availableStepLengths: stepCount becomes the next larger value,
\* setting and taskName are unchanged, the filtered list is the filter of
\* the new FilterState and index is 0.
C13_AdvanceMovesToNextStepCount ==
  (AtLastIndex /\ LargerStepCounts # {}) =>
    LET w == NavigateNext(Viewer)
        next == CHOOSE n \in LargerStepCounts :
                  \A m \in LargerStepCounts : n <= m
    IN  /\ w.currentStepLength = StringOf(next)
        /\ w.currentSetting = currentSetting
        /\ w.currentTaskName = currentTaskName
        /\ w.filteredData = Matching(w)
        /\ w.currentIndex = 0

\* C13's case: advance() at the last item of a list of several moves to a
\* step count with another list.
C13_Witness ==
  /\ AtLastIndex
  /\ LargerStepCounts # {}
  /\ currentIndex > 0
  /\ NavigateNext(Viewer).filteredData # filteredData
  /\ NavigateNext(Viewer).filteredData # << >>

\* The task names after the current one, in sorted order.
LaterTaskNames ==
  { availableTaskNames[i] :
      i \in { j \in 1..Len(availableTaskNames) :
                \E k \in 1..(j - 1) :
                  availableTaskNames[k] = currentTaskName } }

\* availableTaskNames is sorted: the first of the later names is the next.
NextTaskName ==
  CHOOSE n \in LaterTaskNames :
    \A i, j \in 1..Len(availableTaskNames) :
      (availableTaskNames[i] = n /\ availableTaskNames[j] \in LaterTaskNames)
        => i <= j

\* C14: advance() at the last index, with no larger step count available
\* (or stepCount unset) and taskName set and not the last of
\* availableTaskNames: taskName becomes the next value in sorted order,
\* setting is unchanged, stepCount is unset, availableStepLengths is
\* recomputed for the new task, the filtered list is the filter of the
\* resulting FilterState and index is 0.
C14_AdvanceMovesToNextTask ==
  (AtLastIndex /\ LargerStepCounts = {} /\ LaterTaskNames # {}) =>
    LET w == NavigateNext(Viewer)
    IN  /\ w.currentTaskName = NextTaskName
        /\ w.currentSetting = currentSetting
        /\ w.currentStepLength = << >>
        /\ IsAscendingListOf(w.availableStepLengths,
             ObservedStepCounts(w.allData, w.currentSetting,
                                w.currentTaskName))
        /\ w.filteredData = Matching(w)
        /\ w.currentIndex = 0

\* Step counts and tasks are exhausted (or unset): advance() at the last
\* index can only move to a next setting.
StepsAndTasksExhausted ==
  AtLastIndex /\ LargerStepCounts = {} /\ LaterTaskNames = {}

\* The fixed order none, forward, inverse.
SettingAfter(setting) ==
  IF setting = "" THEN "forward" ELSE "inverse"

\* C15: advance() at the last index with step counts and tasks exhausted
\* (or unset) and setting not inverse moves setting one position forward
\* in the order none, forward, inverse, the filtered list is the filter of
\* the resulting FilterState and index is 0; and every successful move to
\* a next category leaves index at 0.
C15_AdvanceMovesToNextSetting ==
  /\ (StepsAndTasksExhausted /\ currentSetting # "inverse") =>
       LET w == NavigateNext(Viewer)
       IN  /\ w.currentSetting = SettingAfter(currentSetting)
           /\ w.filteredData = Matching(w)
           /\ w.currentIndex = 0
  /\ (AtLastIndex /\ MoveToNextCategory(Viewer).moved) =>
       NavigateNext(Viewer).currentIndex = 0

\* C15's case: advance() at the last item of a list of several, with
\* nothing left under forward, moves to inverse and finds samples there.
C15_Witness ==
  /\ StepsAndTasksExhausted
  /\ currentSetting = "forward"
  /\ currentIndex > 0
  /\ NavigateNext(Viewer).currentSetting = "inverse"
  /\ NavigateNext(Viewer).filteredData # << >>

\* The viewer is at the global end: the last setting, no task and no step
\* count set, the last index.
AtGlobalEnd ==
  /\ AtLastIndex
  /\ currentSetting = "inverse"
  /\ currentTaskName = ""
  /\ currentStepLength = << >>

\* C16: advance() at the last index while setting is inverse and neither
\* taskName nor stepCount is set changes nothing: setting, taskName,
\* stepCount, the filtered list and index are as before (and so is every
\* other field), and no error is raised.
C16_AdvanceAtGlobalEndIsNoOp ==
  AtGlobalEnd =>
    /\ ~MoveToNextCategory(Viewer).moved
    /\ NavigateNext(Viewer) = Viewer

\* C16's case: the global end of a dataset that holds samples.
C16_Witness == AtGlobalEnd /\ allData # << >>

\* The viewer is at index 0.
AtFirstIndex == Ready /\ currentIndex = 0

\* The index of the last item of a list (0 for the empty list).
IndexOfLast(w) ==
  IF w.filteredData = << >> THEN 0 ELSE Len(w.filteredData) - 1

\* C17: after every successful move to a previous category by retreat() at
\* index 0, the filtered list is the filter of the resulting FilterState
\* and index is that of the last item of the new category.
C17_RetreatLandsOnLastItem ==
  (AtFirstIndex /\ MoveToPreviousCategory(Viewer).moved) =>
    LET w == NavigatePrevious(Viewer)
    IN  /\ w.filteredData = Matching(w)
        /\ w.currentIndex = IndexOfLast(w)

\* The viewer is at index 0 of the first category: the first setting of
\* the order none, forward, inverse, the first task and the first step
\* count (unset where there is none).
AtFirstCategory ==
  /\ AtFirstIndex
  /\ currentSetting = ""
  /\ currentTaskName =
       (IF availableTaskNames = << >> THEN "" ELSE availableTaskNames[1])
  /\ currentStepLength =
       (IF availableStepLengths = << >> THEN << >>
        ELSE StringOf(availableStepLengths[1]))

\* C18: retreat() at index 0 of the first category is a no-op: setting,
\* taskName, stepCount, the filtered list and index are unchanged.
C18_RetreatAtFirstCategoryIsNoOp ==
  AtFirstCategory =>
    LET w == NavigatePrevious(Viewer)
    IN  /\ w.currentSetting = currentSetting
        /\ w.currentTaskName = currentTaskName
        /\ w.currentStepLength = currentStepLength
        /\ w.filteredData = filteredData
        /\ w.currentIndex = currentIndex

\* The first sample of the current category is on display.
AtFirstSample ==
  AtFirstIndex /\ filteredData # << >> /\ displayed = filteredData[1]

\* C19: retreat() at the first sample of a category that has a previous
\* one lands on the last sample of a category that holds samples, and
\* that sample is shown; advance() from there shows the first sample of
\* the original category again.
C19_RetreatLandsOnPrecedingSample ==
  (AtFirstSample /\ MoveToPreviousCategory(Viewer).moved) =>
    LET w == NavigatePrevious(Viewer)
        back == NavigateNext(w)
    IN  /\ w.filteredData # << >>
        /\ w.currentIndex = Len(w.filteredData) - 1
        /\ w.displayed = w.filteredData[Len(w.filteredData)]
        /\ back.currentIndex = 0
        /\ back.displayed = displayed

\* C20: the sample set is assigned by the load and never modified
\* afterwards, the viewer never returns to loading, and while the load has
\* not completed no step changes FilterState, the index, the filtered
\* list, the reveal flag or the verification result: the only steps taken
\* while loading are the two ends of the load.
C20_NothingRunsBeforeTheLoad ==
  [][/\ phase # "loading" => (allData' = allData /\ phase' # "loading")
     /\ phase' = "loading" =>
          UNCHANGED <<allData, currentSetting, currentTaskName,
                      currentStepLength, currentIndex, filteredData,
                      showAnswer, verificationResult>>]_vars

\* C20's case: the load has completed with a full sample set and the user
\* has navigated and revealed an answer.
C20_Witness ==
  /\ Ready
  /\ Len(allData) = MaxSamples
  /\ currentIndex > 0
  /\ showAnswer

\* C21: whenever advance() finds no further category to move to, also with
\* a taskName or stepCount still selected, setting, taskName, stepCount,
\* the filtered list and the index are unchanged, so a filtered list that
\* was the filter of the FilterState still is.
C21_FailedAdvanceChangesNothing ==
  (AtLastIndex /\ ~MoveToNextCategory(Viewer).moved) =>
    LET w == NavigateNext(Viewer)
    IN  /\ w.currentSetting = currentSetting
        /\ w.currentTaskName = currentTaskName
        /\ w.currentStepLength = currentStepLength
        /\ w.filteredData = filteredData
        /\ w.currentIndex = currentIndex
        /\ filteredData = Matching(Viewer) => w.filteredData = Matching(w)

\* C22: from any reachable state, advance() alone comes, after finitely
\* many calls (at most AdvanceFuel), to a state in which advance() changes
\* nothing, and retreat() alone to a state in which retreat() changes
\* nothing: neither direction cycles through categories forever.
C22_NavigationComesToRest ==
  Ready =>
    LET end == AfterAdvancing(Viewer, AdvanceFuel)
        start == AfterRetreating(Viewer, AdvanceFuel)
    IN  /\ NavigateNext(end) = end
        /\ NavigatePrevious(start) = start

\* C22's case: a full dataset, from a position in the middle: advance()
\* comes to rest in the last setting and retreat() in the first, each
\* after moving through other categories.
C22_Witness ==
  /\ Ready
  /\ Len(allData) = MaxSamples
  /\ currentSetting = "forward"
  /\ AfterAdvancing(Viewer, AdvanceFuel).currentSetting = "inverse"
  /\ AfterRetreating(Viewer, AdvanceFuel).currentSetting = ""
  /\ Len(ShownByAdvancing(Viewer, AdvanceFuel)) > 1

\* The viewers a selector change (setting, task or step count) can leave.
AfterAnySelectorChange ==
  AfterSelectorChange
  \cup { OnStepChange(Viewer, value) : value \in Range(stepOptions) }

\* advance() or retreat() changes the index or re-applies the filter: it
\* moves inside the list or to another category.
AdvanceActs ==
  currentIndex < Len(filteredData) - 1 \/ MoveToNextCategory(Viewer).moved

RetreatActs == currentIndex > 0 \/ MoveToPreviousCategory(Viewer).moved

\* w differs from the viewer in nothing but the reveal flag (and in what
\* the page shows for it).
OnlyTheFlagDiffers(w) ==
  [w EXCEPT !.showAnswer = showAnswer, !.displayed = displayed,
            !.verificationResult = verificationResult] = Viewer

\* C23: the reveal flag is false after every action that changes the index
\* or re-applies the filter (selector change, advance, retreat, successful
\* category move); no action but the reveal toggle makes it true; and a
\* toggle inverts the flag and changes no other field of the viewer.
C23_RevealFlagFollowsTheToggle ==
  Ready =>
    /\ \A w \in AfterAnySelectorChange : ~w.showAnswer
    /\ AdvanceActs => ~NavigateNext(Viewer).showAnswer
    /\ RetreatActs => ~NavigatePrevious(Viewer).showAnswer
    /\ NavigateNext(Viewer).showAnswer => showAnswer
    /\ NavigatePrevious(Viewer).showAnswer => showAnswer
    /\ OnAnswerToggle(Viewer).showAnswer = ~showAnswer
    /\ OnlyTheFlagDiffers(OnAnswerToggle(Viewer))

\* C23's case: an answer is revealed and advance() moves to another
\* category, which hides it.
C23_Witness ==
  /\ Ready
  /\ showAnswer
  /\ currentIndex > 0
  /\ MoveToNextCategory(Viewer).moved
  /\ NavigateNext(Viewer).filteredData # filteredData
  /\ ~NavigateNext(Viewer).showAnswer

====
